---- MODULE Spec2Model ----
(***************************************************************************)
(* BenchMark front end (src/src/oldApp.jsx, second module, lines 127-684): *)
(* the run coordinator (runBenchmark), the result aggregator (the window   *)
(* "message" listener onMessage), the bounded history with its             *)
(* localStorage persistence, and the DNS probe.                            *)
(*                                                                         *)
(* Every handler is one atomic action: the browser runs an event handler   *)
(* to completion, and React (createRoot) renders the state updates of a    *)
(* discrete event and re-binds the effects that depend on them before the  *)
(* next task is taken, so onMessage always closes over the current runId   *)
(* and computerName.                                                       *)
(*                                                                         *)
(* Text is a sequence of one-character strings; a multi-line text is the   *)
(* sequence of its lines (what String.split("\n") returns).  Times are     *)
(* integers.  null is the empty sequence where a value is optional.        *)
(***************************************************************************)
EXTENDS Integers, Sequences, FiniteSets, TLC

VARIABLES
    computerName,   \* useState("")              oldApp.jsx:140
    started,        \* useState(false)           oldApp.jsx:141
    results,        \* useState([])              oldApp.jsx:142
    history,        \* useState([])              oldApp.jsx:143
    runId,          \* useState(null)            oldApp.jsx:144
    expectedCount,  \* expectedCountRef.current  oldApp.jsx:145
    dnsProbe,       \* useState(null)            oldApp.jsx:148
    siteText,       \* useState(defaultSites...) oldApp.jsx:169
    mounted,        \* whether the mount effects have run
    crashed,        \* whether a render has thrown (React has unmounted the tree)
    storage,        \* localStorage: the two keys the application uses
    clock,          \* what Date.now() returns
    workers,        \* popups opened by window.open that have not posted yet
    channel,        \* message events posted to the window (deliverable any number of times)
    probes,         \* runDnsProbe() promises not settled yet
    runLog,         \* history variable: the runs started, in order
    doneLog,        \* history variable: the completions, in order
    probeLog,       \* history variable: the round trips behind the probe result shown
    lastOp          \* history variable: the handler that ran last, and its event

appVars == <<computerName, started, results, history, runId, expectedCount,
             dnsProbe, siteText>>
envVars == <<mounted, crashed, storage, clock, workers, channel, probes, probeLog>>
vars == <<computerName, started, results, history, runId, expectedCount,
          dnsProbe, siteText, mounted, crashed, storage, clock, workers,
          channel, probes, runLog, doneLog, probeLog, lastOp>>

(***************************************************************************)
(* Bounds of the model.                                                    *)
(***************************************************************************)
MaxRuns == 2            \* successful runBenchmark calls explored
NumDefaultSites == 2    \* length of the built-in site list (10 in the source)
HistRuns == 6           \* successful runBenchmark calls explored by SpecHist
InputRuns == 1          \* successful runBenchmark calls explored by SpecInput
SpawnPopups == 6        \* popups opened in all, in the behaviours explored by SpecSpawn

(***************************************************************************)
(* Program constants.                                                      *)
(***************************************************************************)
HistoryCap == 5         \* .slice(0, 5)
MaxSelected == 5        \* Math.min(5, shuffled.length)
LoadTimeMs == 1000      \* expectations.loadTimeMs

NoRun == 0              \* runId === null (Date.now() is positive)

Min(a, b) == IF a < b THEN a ELSE b

(***************************************************************************)
(* String.prototype.trim over the model's characters: " " is white space.  *)
(***************************************************************************)
IsSpace(c) == c = " "

RECURSIVE TrimStart(_)
TrimStart(s) ==
    IF s # <<>> /\ IsSpace(Head(s)) THEN TrimStart(Tail(s)) ELSE s

RECURSIVE TrimEnd(_)
TrimEnd(s) ==
    IF s # <<>> /\ IsSpace(s[Len(s)]) THEN TrimEnd(SubSeq(s, 1, Len(s) - 1)) ELSE s

Trim(s) == TrimEnd(TrimStart(s))

(***************************************************************************)
(* sites: siteText.split("\n").map(trim).filter(Boolean)                   *)
(***************************************************************************)
NonEmpty(s) == s # <<>>

\* Mutant: the blank lines are kept
SitesOfUnfiltered(lines) == [i \in DOMAIN lines |-> Trim(lines[i])]

SitesOf(lines) == SelectSeq([i \in DOMAIN lines |-> Trim(lines[i])], NonEmpty)

sites == SitesOf(siteText)

SiteNames == <<"x", "y", "z", "u", "v", "w", "p", "q", "r", "s", "t">>

defaultSites == [i \in 1..NumDefaultSites |-> <<SiteNames[i]>>]

(***************************************************************************)
(* Inputs.                                                                 *)
(***************************************************************************)
Names == { <<>>, <<" ">>, <<"a">>, <<" ", "b">> }

Texts == { << <<>> >>,
           << <<" ">>, <<>> >>,
           << <<"x">> >>,
           << <<" ", "y">>, <<>>, <<"x", " ">> >> }

Fast == [loadTime |-> 100, cpuTime |-> 0, networkLatency |-> 0, memoryUsage |-> 0]
Slow == [loadTime |-> 1001, cpuTime |-> 0, networkLatency |-> 0, memoryUsage |-> 0]
Metrics == {Fast, Slow}
\* Measurements around the roundings of the score: exact halves, a raw score
\* just under 0, and a load time far over every other
ScoreMetrics ==
    { [loadTime |-> a, cpuTime |-> b, networkLatency |-> c, memoryUsage |-> d] :
        a \in {0, 3, 2501, 100000}, b \in {0, 1}, c \in {0, 2}, d \in {0, 5} }
\* loadTime exactly at the threshold of the probe
Edge == [loadTime |-> 1000, cpuTime |-> 0, networkLatency |-> 0, memoryUsage |-> 0]

ResultType == "benchmarkResult"

Message(w, m) ==
    [type |-> ResultType, runId |-> w.runId, index |-> w.index, site |-> w.site,
     loadTime |-> m.loadTime, cpuTime |-> m.cpuTime,
     networkLatency |-> m.networkLatency, memoryUsage |-> m.memoryUsage]

\* event.data of a message that is not a benchmark result: null, or another type
NoData ==
    [type |-> "null", runId |-> NoRun, index |-> 0, site |-> <<>>,
     loadTime |-> 0, cpuTime |-> 0, networkLatency |-> 0, memoryUsage |-> 0]
OtherData == [NoData EXCEPT !.type = "other"]
IsNull(data) == data.type = "null"

\* A MessageEvent: its data, and its source (the run whose popup posted it;
\* 0 for a sender that is no popup of the application)
Event(src, data) == [source |-> src, data |-> data]

Op(name, ev) == [op |-> name, data |-> ev.data, source |-> ev.source]
NoEvent == Event(0, NoData)

(***************************************************************************)
(* Scoring.  Math.round(x) is floor(x + 0.5); the weighted sum is kept in  *)
(* tenths so that it stays an integer.                                     *)
(***************************************************************************)
RoundTenths(t) == (t + 5) \div 10

\* Mutant: no Math.max(0, ...)
scoreOneUnclamped(it) ==
    RoundTenths(10000 - (4 * it.loadTime + 3 * it.cpuTime
                         + 2 * it.networkLatency + 1 * it.memoryUsage))

scoreOne(it) ==
    LET raw == 10000 - (4 * it.loadTime + 3 * it.cpuTime
                        + 2 * it.networkLatency + 1 * it.memoryUsage)
        rounded == RoundTenths(raw)
    IN IF rounded > 0 THEN rounded ELSE 0

RECURSIVE SumScores(_)
SumScores(items) ==
    IF items = <<>> THEN 0 ELSE scoreOne(Head(items)) + SumScores(Tail(items))

\* Mutant: the mean is cut, not rounded
averageScoreFloor(items) ==
    IF Len(items) = 0 THEN 0 ELSE SumScores(items) \div Len(items)

\* Math.round(sum / n) = floor((2 * sum + n) / (2 * n))
averageScore(items) ==
    IF Len(items) = 0 THEN 0
    ELSE (2 * SumScores(items) + Len(items)) \div (2 * Len(items))

(***************************************************************************)
(* Array.prototype.sort((a, b) => a.index - b.index): stable insertion of  *)
(* each element after the elements whose index is not larger.              *)
(***************************************************************************)
\* Mutant: the comparator is ignored, the element is put first
InsertByIndexFront(sorted, r) == <<r>> \o sorted

RECURSIVE InsertByIndex(_, _)
InsertByIndex(sorted, r) ==
    IF sorted = <<>> THEN <<r>>
    ELSE IF r.index < Head(sorted).index THEN <<r>> \o sorted
    ELSE <<Head(sorted)>> \o InsertByIndex(Tail(sorted), r)

\* Mutant: the record keeps the arrival order (as src/src/App.jsx:48 does)
SortByIndexNone(items) == items

RECURSIVE SortByIndex(_)
SortByIndex(items) ==
    IF items = <<>> THEN <<>>
    ELSE InsertByIndex(SortByIndex(SubSeq(items, 1, Len(items) - 1)), items[Len(items)])

\* Mutant: the records already in the log take the computer of the new one
AppendHistoryRenamed(rec, old) ==
    SubSeq(<<rec>> \o [i \in DOMAIN old |-> [old[i] EXCEPT !.computer = rec.computer]],
           1, Min(HistoryCap, Len(old) + 1))

\* Mutant: the log is not cut
AppendHistoryUncut(rec, old) == <<rec>> \o old

\* Mutant: the record is put last, so the cut drops it from a full log
AppendHistoryLast(rec, old) ==
    SubSeq(old \o <<rec>>, 1, Min(HistoryCap, Len(old) + 1))

\* [runRecord, ...old].slice(0, 5)
AppendHistory(rec, old) ==
    SubSeq(<<rec>> \o old, 1, Min(HistoryCap, Len(old) + 1))

\* results.slice().sort(...).map((r) => ({ ...r, score: scoreOne(r) }))
ResultsWithScore(items) ==
    LET sorted == SortByIndex(items)
    IN [i \in DOMAIN sorted |-> [r |-> sorted[i], score |-> scoreOne(sorted[i])]]

\* new Date(runId).toLocaleString(): the time to the second
LocaleString(t) == t \div 1000


(***************************************************************************)
(* localStorage.  A key holds nothing, text that JSON.parse rejects, or    *)
(* the JSON text of a value; JSON.stringify and JSON.parse are exact on    *)
(* the values stored here (finite numbers, strings, arrays and records of  *)
(* them), so the JSON text is represented by the value it encodes.         *)
(***************************************************************************)
Absent == [kind |-> "absent", value |-> <<>>]
Garbage == [kind |-> "garbage", value |-> <<>>]
Stringify(v) == [kind |-> "json", value |-> v]
\* The JSON text of a value that is not an array (null, a number, an object)
NotALog == [kind |-> "notalog", value |-> <<>>]

\* Mutant: nothing is written
SetItemDropped(st, key, text, ok) == st

\* localStorage.setItem(key, text); a write that throws leaves the key as it was
SetItem(st, key, text, ok) == IF ok THEN [st EXCEPT ![key] = text] ELSE st

\* JSON.parse(savedSites).join("\n"), as the lines of the joined text
JoinLines(arr) == IF arr = <<>> THEN << <<>> >> ELSE arr

(***************************************************************************)
(* What an earlier session can have left under the history key: the log    *)
(* it persisted, at most HistoryCap records, newest first.  Its run ids    *)
(* are times before this page was loaded (the clock starts at 1).          *)
(***************************************************************************)
OldRecord(k) ==
    LET res == << Message([runId |-> -k, index |-> 0, site |-> <<"x">>], Fast) >>
    IN [id |-> -k, at |-> -k \div 1000, computer |-> <<"a">>,
        finalScore |-> averageScore(res), results |-> res]

OldLog(n) == [k \in 1..n |-> OldRecord(k)]

(***************************************************************************)
(* Initial state: the useState initial values, before the effects run.     *)
(***************************************************************************)
InitWith(stores) ==
    /\ computerName = <<>>
    /\ started = FALSE
    /\ results = <<>>
    /\ history = <<>>
    /\ runId = NoRun
    /\ expectedCount = 0
    /\ dnsProbe = <<>>
    /\ siteText = defaultSites
    /\ mounted = FALSE
    /\ crashed = FALSE
    /\ storage \in stores
    /\ clock = 1
    /\ workers = {}
    /\ channel = {}
    /\ probes = 0
    /\ runLog = <<>>
    /\ doneLog = <<>>
    /\ probeLog = <<>>
    /\ lastOp = Op("init", NoEvent)

(***************************************************************************)
(* The mount effects (oldApp.jsx:252-269), in order: load both keys,       *)
(* persist the history of the first render ([]), persist the sites of the  *)
(* first render; then the render of the loaded values persists them.       *)
(* The load accepts whatever JSON.parse returns.                           *)
(***************************************************************************)
\* Mutant: the history is persisted on the first render only, so the loaded
\* log is not written back over the [] of the first render
MountPersistOnce(oks) ==
    /\ ~mounted
    /\ LET histThrows == storage.hist.kind = "garbage"
           histLoaded == storage.hist.kind = "json"
           histBroken == storage.hist.kind = "notalog"
           sitesLoaded == ~histThrows /\ storage.sites.kind = "json"
           newHistory == IF histLoaded THEN storage.hist.value ELSE history
           newText == IF sitesLoaded THEN JoinLines(storage.sites.value) ELSE siteText
       IN \E ok1 \in oks, ok2 \in oks, ok4 \in oks :
             LET s1 == SetItem(storage, "hist", Stringify(history), ok1)
                 s2 == SetItem(s1, "sites", Stringify(sites), ok2)
                 s4 == IF newText # siteText
                       THEN SetItem(s2, "sites", Stringify(SitesOf(newText)), ok4)
                       ELSE s2
             IN IF histBroken
                THEN /\ crashed' = TRUE
                     /\ storage' = s2
                     /\ UNCHANGED <<history, siteText>>
                ELSE /\ crashed' = FALSE
                     /\ storage' = s4
                     /\ history' = newHistory
                     /\ siteText' = newText
    /\ mounted' = TRUE
    /\ lastOp' = Op("mount", NoEvent)
    /\ UNCHANGED <<computerName, started, results, runId, expectedCount, dnsProbe,
                   clock, workers, channel, probes, runLog, doneLog, probeLog>>

Mount(oks) ==
    /\ ~mounted
    /\ LET histThrows == storage.hist.kind = "garbage"
           histLoaded == storage.hist.kind = "json"
           histBroken == storage.hist.kind = "notalog"
           sitesLoaded == ~histThrows /\ storage.sites.kind = "json"
           newHistory == IF histLoaded THEN storage.hist.value ELSE history
           newText == IF sitesLoaded THEN JoinLines(storage.sites.value) ELSE siteText
       IN \E ok1 \in oks, ok2 \in oks, ok3 \in oks, ok4 \in oks :
             LET s1 == SetItem(storage, "hist", Stringify(history), ok1)
                 s2 == SetItem(s1, "sites", Stringify(sites), ok2)
                 s3 == IF histLoaded
                       THEN SetItem(s2, "hist", Stringify(newHistory), ok3)
                       ELSE s2
                 s4 == IF newText # siteText
                       THEN SetItem(s3, "sites", Stringify(SitesOf(newText)), ok4)
                       ELSE s3
             IN IF histBroken
                \* setHistory(a value that is no array): the next render throws
                \* at history.slice() (oldApp.jsx:361) and nothing of it is
                \* committed
                THEN /\ crashed' = TRUE
                     /\ storage' = s2
                     /\ UNCHANGED <<history, siteText>>
                ELSE /\ crashed' = FALSE
                     /\ storage' = s4
                     /\ history' = newHistory
                     /\ siteText' = newText
    /\ mounted' = TRUE
    /\ lastOp' = Op("mount", NoEvent)
    /\ UNCHANGED <<computerName, started, results, runId, expectedCount, dnsProbe,
                   clock, workers, channel, probes, runLog, doneLog, probeLog>>

(***************************************************************************)
(* The operator's edits (oldApp.jsx:425, 459).  A new site text makes a    *)
(* new sites array, which the persist effect writes (oldApp.jsx:265-269).  *)
(***************************************************************************)
SetComputerName(names) ==
    /\ mounted /\ ~crashed
    /\ \E n \in names : n # computerName /\ computerName' = n
    /\ lastOp' = Op("setComputerName", NoEvent)
    /\ UNCHANGED <<started, results, history, runId, expectedCount, dnsProbe,
                   siteText, mounted, crashed, storage, clock, workers, channel, probes,
                   runLog, doneLog, probeLog>>

\* Mutant: a write that throws is not caught and takes the application down
SetSiteTextUncaught(texts, oks) ==
    /\ mounted /\ ~crashed
    /\ \E t \in texts, ok \in oks :
          /\ t # siteText
          /\ siteText' = t
          /\ storage' = SetItem(storage, "sites", Stringify(SitesOf(t)), ok)
          /\ crashed' = ~ok
    /\ lastOp' = Op("setSiteText", NoEvent)
    /\ UNCHANGED <<computerName, started, results, history, runId, expectedCount,
                   dnsProbe, mounted, clock, workers, channel, probes, runLog,
                   doneLog, probeLog>>

SetSiteText(texts, oks) ==
    /\ mounted /\ ~crashed
    /\ \E t \in texts, ok \in oks :
          /\ t # siteText
          /\ siteText' = t
          /\ storage' = SetItem(storage, "sites", Stringify(SitesOf(t)), ok)
    /\ lastOp' = Op("setSiteText", NoEvent)
    /\ UNCHANGED <<computerName, started, results, history, runId, expectedCount,
                   dnsProbe, mounted, crashed, clock, workers, channel, probes, runLog,
                   doneLog, probeLog>>

(***************************************************************************)
(* Date.now() advances.  Run ids are only compared for equality, so only   *)
(* the ticks that separate two runs are taken.                             *)
(***************************************************************************)
Tick ==
    /\ \E i \in DOMAIN runLog : runLog[i].id = clock
    /\ clock' = clock + 1
    /\ UNCHANGED <<appVars, mounted, crashed, storage, workers, channel, probes, runLog,
                   doneLog, probeLog, lastOp>>

(***************************************************************************)
(* runBenchmark (oldApp.jsx:319-344).                                      *)
(* [...sites].sort(() => 0.5 - Math.random()).slice(0, min(5, n)): the     *)
(* comparator is inconsistent, so the order is any permutation.            *)
(***************************************************************************)
\* Mutant: no slice(0, 5)
SelectionsUncut(pool) ==
    { [i \in DOMAIN pool |-> pool[f[i]]] :
        f \in { g \in [DOMAIN pool -> DOMAIN pool] :
                  \A i, j \in DOMAIN pool : i # j => g[i] # g[j] } }

Selections(pool) ==
    LET k == Min(MaxSelected, Len(pool))
    IN { [i \in 1..k |-> pool[f[i]]] :
           f \in { g \in [1..k -> DOMAIN pool] :
                     \A i, j \in 1..k : i # j => g[i] # g[j] } }

\* Mutant: the name is not trimmed
IsBlankUntrimmed(name) == name = <<>>

\* !computerName.trim()
IsBlank(name) == Trim(name) = <<>>

Spawned(selected, id, run) ==
    { [site |-> selected[i], runId |-> id, index |-> i - 1, run |-> run] :
        i \in DOMAIN selected }

\* The popups opened so far
RECURSIVE PopupsOpened(_)
PopupsOpened(log) ==
    IF log = <<>> THEN 0 ELSE Len(Head(log).selected) + PopupsOpened(Tail(log))

RunBenchmark(maxRuns, maxPopups, sameMs) ==
    /\ mounted /\ ~crashed
    /\ IF IsBlank(computerName)
       THEN /\ lastOp' = Op("runBenchmark", NoEvent)
            /\ UNCHANGED <<appVars, envVars, runLog, doneLog>>
       ELSE IF Len(sites) < 1
       THEN /\ lastOp' = Op("runBenchmark", NoEvent)
            /\ UNCHANGED <<appVars, envVars, runLog, doneLog>>
       ELSE /\ Len(runLog) < maxRuns
            /\ PopupsOpened(runLog) + Min(MaxSelected, Len(sites)) <= maxPopups
            /\ sameMs \/ \A i \in DOMAIN runLog : runLog[i].id # clock
            /\ \E selected \in Selections(sites) :
                  LET id == clock
                  IN /\ dnsProbe' = <<>>
                     /\ probeLog' = <<>>
                     /\ runId' = id
                     /\ started' = TRUE
                     /\ results' = <<>>
                     /\ expectedCount' = Len(selected)
                     /\ workers' = workers \cup Spawned(selected, id, Len(runLog) + 1)
                     /\ runLog' = Append(runLog,
                                    [id |-> id, computer |-> computerName,
                                     selected |-> selected])
            /\ lastOp' = Op("runBenchmark", NoEvent)
            /\ UNCHANGED <<computerName, history, siteText, mounted, crashed, storage,
                           clock, channel, probes, doneLog>>

(***************************************************************************)
(* A popup posts its one result (public/benchmark.html, not in src/: the   *)
(* message carries the site, runId and index of its URL).                  *)
(***************************************************************************)
WorkerPost(metrics) ==
    /\ \E w \in workers, m \in metrics :
          /\ workers' = workers \ {w}
          /\ channel' = channel \cup {Event(w.run, Message(w, m))}
    /\ UNCHANGED <<appVars, mounted, crashed, storage, clock, probes, runLog, doneLog, probeLog, lastOp>>

(***************************************************************************)
(* onMessage (oldApp.jsx:202-233) and the effects of its state updates.    *)
(***************************************************************************)
\* Mutant: only the result accumulated last is compared
HasIndexOfLast(items, ix) == items # <<>> /\ items[Len(items)].index = ix

\* Mutant: no check for a result of the same index
HasIndexNever(items, ix) == FALSE

HasIndex(items, ix) == \E i \in DOMAIN items : items[i].index = ix

AnySlow(items) == \E i \in DOMAIN items : items[i].loadTime > LoadTimeMs

\* Mutant: every result is taken for a result of another run
IsStaleAlways(data) == TRUE

\* Mutant: no check of the run id
IsStaleNever(data) == FALSE

\* data.runId !== runId
IsStale(data) == data.runId # runId

\* Mutant: the count before the insertion is compared
IsCompleteOffByOne(next) == Len(next) + 1 = expectedCount

\* next.length === expectedCountRef.current
IsComplete(next) == Len(next) = expectedCount

RunRecord(id, computer, next) ==
    [id |-> id, at |-> LocaleString(id), computer |-> computer,
     finalScore |-> averageScore(next), results |-> SortByIndex(next)]

OnMessage(data, oks) ==
    IF IsNull(data) \/ data.type # ResultType
    THEN UNCHANGED <<appVars, envVars, runLog, doneLog>>
    ELSE IF IsStale(data)
    THEN UNCHANGED <<appVars, envVars, runLog, doneLog>>
    ELSE IF HasIndex(results, data.index)
    THEN UNCHANGED <<appVars, envVars, runLog, doneLog>>
    ELSE LET next == Append(results, data)
         IN IF IsComplete(next)
            THEN LET runRecord == RunRecord(runId, computerName, next)
                 IN /\ results' = runRecord.results   \* next.sort sorts in place
                    /\ history' = AppendHistory(runRecord, history)
                    /\ \E ok \in oks :
                          storage' = SetItem(storage, "hist", Stringify(history'), ok)
                    /\ IF AnySlow(next)
                       THEN /\ probes' = probes + 1
                            /\ UNCHANGED <<dnsProbe, probeLog>>
                       ELSE /\ probes' = probes
                            /\ dnsProbe' = <<>>
                            /\ probeLog' = <<>>
                    /\ doneLog' = Append(doneLog, [run |-> Len(runLog), rec |-> runRecord])
                    /\ UNCHANGED <<computerName, started, runId, expectedCount,
                                   siteText, mounted, crashed, clock, workers, channel, runLog>>
            ELSE /\ results' = next
                 /\ UNCHANGED <<computerName, started, history, runId, expectedCount,
                                dnsProbe, siteText, envVars, runLog, doneLog>>

\* The listener is called with one event
DeliverEvent(ev, oks) ==
    /\ mounted /\ ~crashed
    /\ OnMessage(ev.data, oks)
    /\ lastOp' = Op("onMessage", ev)

Deliver(others, oks) == \E ev \in channel \cup others : DeliverEvent(ev, oks)

(***************************************************************************)
(* runDnsProbe settles (oldApp.jsx:295-316, 226): two elapsed times, in    *)
(* tenths of a millisecond, whether or not each fetch failed.              *)
(***************************************************************************)
\* probeOnce: the time elapsed, whether the fetch resolved or threw
ProbeOnce(trip) == trip.ms

\* Mutant: the rounded latencies are compared
ProbeResultOfRounded(cloudflareMs, googleMs) ==
    [cloudflareMs |-> RoundTenths(cloudflareMs),
     googleMs |-> RoundTenths(googleMs),
     recommended |-> IF RoundTenths(cloudflareMs) < RoundTenths(googleMs)
                     THEN "Cloudflare (1.1.1.1)"
                     ELSE "Google (8.8.8.8)"]

ProbeResult(cloudflareMs, googleMs) ==
    [cloudflareMs |-> RoundTenths(cloudflareMs),
     googleMs |-> RoundTenths(googleMs),
     recommended |-> IF cloudflareMs < googleMs THEN "Cloudflare (1.1.1.1)"
                     ELSE "Google (8.8.8.8)"]

\* The two round trips of one probe: each an elapsed time and whether the
\* fetch failed
Trips(lats, fails) ==
    { [cloudflare |-> [ms |-> a, failed |-> fa], google |-> [ms |-> b, failed |-> fb]] :
        a \in lats, b \in lats, fa \in fails, fb \in fails }

\* .then(setDnsProbe) with the result, or .catch(() => setDnsProbe(null))
\* when runDnsProbe itself rejects
\* Mutant: a rejected probe is not caught and takes the application down
ProbeSettleUncaught(lats, fails, rejects) ==
    /\ probes > 0
    /\ probes' = probes - 1
    /\ \E rejected \in rejects :
          IF rejected
          THEN crashed' = TRUE /\ UNCHANGED <<dnsProbe, probeLog>>
          ELSE \E t \in Trips(lats, fails) :
                  /\ dnsProbe' = << ProbeResult(ProbeOnce(t.cloudflare), ProbeOnce(t.google)) >>
                  /\ probeLog' = << t >>
                  /\ crashed' = crashed
    /\ lastOp' = Op("setDnsProbe", NoEvent)
    /\ UNCHANGED <<computerName, started, results, history, runId, expectedCount,
                   siteText, mounted, storage, clock, workers, channel,
                   runLog, doneLog>>

ProbeSettle(lats, fails, rejects) ==
    /\ probes > 0
    /\ probes' = probes - 1
    /\ \E rejected \in rejects :
          IF rejected
          THEN dnsProbe' = <<>> /\ probeLog' = <<>>
          ELSE \E t \in Trips(lats, fails) :
                  /\ dnsProbe' = << ProbeResult(ProbeOnce(t.cloudflare), ProbeOnce(t.google)) >>
                  /\ probeLog' = << t >>
    /\ lastOp' = Op("setDnsProbe", NoEvent)
    /\ UNCHANGED <<computerName, started, results, history, runId, expectedCount,
                   siteText, mounted, crashed, storage, clock, workers, channel, runLog,
                   doneLog>>

(***************************************************************************)
(* Specifications.  A specification is the next-state relation under the   *)
(* inputs p: the names and site texts the operator types, the metrics a    *)
(* popup reports, the probe latencies, the outcomes of a localStorage      *)
(* write, the other messages the window receives, whether two runs may     *)
(* start within one millisecond, and the number of runs explored.          *)
(***************************************************************************)
NextWith(p) ==
    \/ Mount(p.oks)
    \/ SetComputerName(p.names)
    \/ SetSiteText(p.texts, p.oks)
    \/ Tick
    \/ RunBenchmark(p.maxRuns, p.maxPopups, p.sameMs)
    \/ WorkerPost(p.metrics)
    \/ Deliver(p.others, p.oks)
    \/ ProbeSettle(p.lats, p.fails, p.rejects)

\* The same without the probe, for metrics that never start one.
NextFast(p) ==
    \/ Mount(p.oks)
    \/ SetComputerName(p.names)
    \/ SetSiteText(p.texts, p.oks)
    \/ Tick
    \/ RunBenchmark(p.maxRuns, p.maxPopups, p.sameMs)
    \/ WorkerPost(p.metrics)
    \/ Deliver(p.others, p.oks)

\* The aggregator under two runs of the built-in site list or of a one-site
\* list, with an empty localStorage.
RunInputs ==
    [names |-> { <<"a">> },
     texts |-> { << <<"x">> >> },
     metrics |-> Metrics,
     lats |-> { 104, 106 },
     fails |-> { FALSE },
     rejects |-> { FALSE },
     oks |-> { TRUE },
     others |-> { Event(0, NoData), Event(0, OtherData) },
     sameMs |-> TRUE,
     maxRuns |-> MaxRuns,
     maxPopups |-> MaxRuns * MaxSelected]
RunStores == { [hist |-> Absent, sites |-> Absent] }

Init == InitWith(RunStores)
Next == NextWith(RunInputs)
Spec == Init /\ [][Next]_vars

\* Six and more runs of a persisted one-site list, each in a millisecond of
\* its own, with fast results only.
HistInputs ==
    [names |-> { <<"a">> },
     texts |-> { << <<"x">>, <<>> >> },
     metrics |-> { Fast },
     lats |-> {},
     fails |-> { FALSE },
     rejects |-> { FALSE },
     oks |-> { TRUE },
     others |-> {},
     sameMs |-> FALSE,
     maxRuns |-> HistRuns,
     maxPopups |-> HistRuns * MaxSelected]
HistStores == { [hist |-> Absent, sites |-> Stringify(<< <<"x">> >>)] }

SpecHist == InitWith(HistStores) /\ [][NextFast(HistInputs)]_vars

\* Two runs after every history log an earlier session can have left.
RestoreInputs == [HistInputs EXCEPT !.maxRuns = MaxRuns, !.sameMs = TRUE]

RestoreStores ==
    { [hist |-> Stringify(OldLog(n)), sites |-> Stringify(<< <<"x">> >>)] :
        n \in 0..HistoryCap }
    \cup { [hist |-> Garbage, sites |-> Stringify(<< <<"x">> >>)],
           [hist |-> Absent, sites |-> Absent] }

SpecRestore == InitWith(RestoreStores) /\ [][NextFast(RestoreInputs)]_vars

\* The validation of runBenchmark under every name and site text, with
\* slow results so that a probe result can be on display.
InputInputs ==
    [names |-> Names,
     texts |-> Texts,
     metrics |-> { Slow },
     lats |-> { 104 },
     fails |-> { FALSE },
     rejects |-> { FALSE },
     oks |-> { TRUE },
     others |-> {},
     sameMs |-> TRUE,
     maxRuns |-> InputRuns,
     maxPopups |-> InputRuns * MaxSelected]

SpecInput == InitWith(RunStores) /\ [][NextWith(InputInputs)]_vars

\* The probe under two runs in different milliseconds, with results at the
\* threshold and just above it.
ProbeInputs ==
    [names |-> { <<"a">> },
     texts |-> { << <<"x">> >> },
     metrics |-> { Edge, Slow },
     lats |-> { 104, 106 },
     fails |-> { FALSE },
     rejects |-> { FALSE },
     oks |-> { TRUE },
     others |-> {},
     sameMs |-> FALSE,
     maxRuns |-> MaxRuns,
     maxPopups |-> MaxRuns * MaxSelected]

SpecProbe == InitWith(RunStores) /\ [][NextWith(ProbeInputs)]_vars

\* The scores of one run of the built-in list or of a one-site list.
ScoreInputs ==
    [names |-> { <<"a">> },
     texts |-> { << <<"x">> >> },
     metrics |-> ScoreMetrics,
     lats |-> { 104 },
     fails |-> { FALSE },
     rejects |-> { FALSE },
     oks |-> { TRUE },
     others |-> {},
     sameMs |-> FALSE,
     maxRuns |-> InputRuns,
     maxPopups |-> InputRuns * MaxSelected]

SpecScore == InitWith(RunStores) /\ [][NextWith(ScoreInputs)]_vars

resultsWithScore == ResultsWithScore(results)

\* Startup on every content of the history key, then a run.
LoadInputs == [HistInputs EXCEPT !.maxRuns = InputRuns]

LoadStores ==
    { [hist |-> h, sites |-> Stringify(<< <<"x">> >>)] :
        h \in { Absent, Garbage, NotALog, Stringify(OldLog(1)) } }

SpecLoad == InitWith(LoadStores) /\ [][NextFast(LoadInputs)]_vars

\* A run of a persisted one-site list, and a run of a list of six lines.
SixLines == << <<"x">>, <<"x">>, <<"x">>, <<"x">>, <<"x">>, <<"y">> >>

SpawnInputs ==
    [names |-> { <<"a">> },
     texts |-> { SixLines },
     metrics |-> { Fast },
     lats |-> {},
     fails |-> { FALSE },
     rejects |-> { FALSE },
     oks |-> { TRUE },
     others |-> {},
     sameMs |-> FALSE,
     maxRuns |-> MaxRuns,
     maxPopups |-> SpawnPopups]

SpecSpawn == InitWith(HistStores) /\ [][NextFast(SpawnInputs)]_vars

\* Two runs under a computer name that is edited at any time, after a full
\* log or none was restored.
NameInputs ==
    [names |-> { <<"a">>, <<"b">> },
     texts |-> { << <<"x">> >> },
     metrics |-> { Fast },
     lats |-> {},
     fails |-> { FALSE },
     rejects |-> { FALSE },
     oks |-> { TRUE },
     others |-> {},
     sameMs |-> FALSE,
     maxRuns |-> MaxRuns,
     maxPopups |-> MaxRuns * MaxSelected]

NameStores ==
    { [hist |-> Stringify(OldLog(HistoryCap)), sites |-> Absent],
      [hist |-> Absent, sites |-> Absent] }

SpecName == InitWith(NameStores) /\ [][NextFast(NameInputs)]_vars

\* Two runs in different milliseconds whose popups all answer and whose
\* every posted message is delivered: the event loop takes every task that
\* is queued, and a popup that has loaded posts its result.
LiveInputs ==
    [names |-> { <<"a">> },
     texts |-> { << <<"x">> >> },
     metrics |-> { Fast },
     lats |-> {},
     fails |-> { FALSE },
     rejects |-> { FALSE },
     oks |-> { TRUE },
     others |-> {},
     sameMs |-> FALSE,
     maxRuns |-> MaxRuns,
     maxPopups |-> MaxRuns * MaxSelected]

\* Every message a popup of these runs can post
LiveEvents ==
    { Event(k, Message([runId |-> id, index |-> ix, site |-> <<st>>], Fast)) :
        k \in 1..MaxRuns, id \in 1..MaxRuns, ix \in 0..(NumDefaultSites - 1),
        st \in { SiteNames[i] : i \in 1..NumDefaultSites } }

SpecLive ==
    /\ InitWith(RunStores)
    /\ [][NextFast(LiveInputs)]_vars
    /\ WF_vars(WorkerPost(LiveInputs.metrics))
    /\ \A ev \in LiveEvents :
          WF_vars(ev \in channel /\ DeliverEvent(ev, LiveInputs.oks))

\* Two runs with a localStorage whose writes can throw and whose keys can be
\* unreadable (getItem or JSON.parse throws): the history key, so that nothing
\* is loaded, or the sites key, after the history was loaded.
FailInputs == [HistInputs EXCEPT !.oks = { TRUE, FALSE }, !.maxRuns = MaxRuns]

FailStores ==
    { [hist |-> Absent, sites |-> Absent],
      [hist |-> Garbage, sites |-> Stringify(<< <<"x">> >>)],
      [hist |-> Stringify(OldLog(1)), sites |-> Garbage] }

SpecFail == InitWith(FailStores) /\ [][NextFast(FailInputs)]_vars

\* Runs with fast and slow results, and every outcome of a probe: each
\* fetch resolves or throws after one of two elapsed times, or the probe
\* itself rejects.
TripInputs ==
    [names |-> { <<"a">> },
     texts |-> { << <<"x">> >> },
     metrics |-> Metrics,
     lats |-> { 101, 104 },
     fails |-> { FALSE, TRUE },
     rejects |-> { FALSE, TRUE },
     oks |-> { TRUE },
     others |-> {},
     sameMs |-> FALSE,
     maxRuns |-> MaxRuns,
     maxPopups |-> MaxRuns * MaxSelected]

SpecTrip == InitWith(RunStores) /\ [][NextWith(TripInputs)]_vars

(***************************************************************************)
(* Vocabulary of the properties.                                           *)
(***************************************************************************)
Indices(items) == { items[i].index : i \in DOMAIN items }

DistinctIndices(items) == Cardinality(Indices(items)) = Len(items)

\* The run started last, by its position in runLog (0: none yet)
ActiveRun == Len(runLog)

\* How many times run k reached its completion step
Completions(k) == Cardinality({ i \in DOMAIN doneLog : doneLog[i].run = k })

\* No other run of the session was given run k's id
OwnId(k) == \A j \in DOMAIN runLog : j # k => runLog[j].id # runLog[k].id

\* Every result posted with run k's id was posted by a popup of run k
OwnResults(k) ==
    \A ev \in channel : ev.data.runId = runLog[k].id => ev.source = k

\* The last handler was onMessage, on a benchmark result
ResultDelivered == lastOp.op = "onMessage" /\ lastOp.data.type = ResultType

\* The same, of the step being taken
ResultDeliveredNext == lastOp'.op = "onMessage" /\ lastOp'.data.type = ResultType

\* The result messages of run k, one per index, in index order
OwnMessage(k, ix) ==
    (CHOOSE ev \in channel : ev.source = k /\ ev.data.index = ix).data

OwnMessages(k) == [i \in DOMAIN runLog[k].selected |-> OwnMessage(k, i - 1)]

AllPosted(k) ==
    \A i \in DOMAIN runLog[k].selected :
        \E ev \in channel : ev.source = k /\ ev.data.index = i - 1

(***************************************************************************)
(* C1.  A run with expectedCount = n to which only the results of its own  *)
(* popups are delivered accumulates each of them once, whatever the order  *)
(* and however often a message is repeated: the accumulated results have   *)
(* distinct indices and never more than n members, a delivered result is   *)
(* among them from then on, and the completion step (one record appended)  *)
(* has happened exactly once when there are n members, not at all before.  *)
(***************************************************************************)
C1_State ==
    (ActiveRun > 0 /\ OwnResults(ActiveRun)) =>
        /\ expectedCount = Len(runLog[ActiveRun].selected)
        /\ Len(results) <= expectedCount
        /\ DistinctIndices(results)
        /\ Completions(ActiveRun) = (IF Len(results) = expectedCount THEN 1 ELSE 0)
        /\ (ResultDelivered /\ lastOp.data.runId = runId)
              => lastOp.data.index \in Indices(results)

C1_Step ==
    (runLog' = runLog) => Indices(results) \subseteq Indices(results')

C1_ExactlyOnce == [](C1_State) /\ [][C1_Step]_vars

\* A result of the run is delivered again after the run has completed (the
\* probe that the completion started has settled since): still n members
\* and one completion.
C1_Witness ==
    /\ ActiveRun > 0 /\ OwnResults(ActiveRun)
    /\ expectedCount >= 2
    /\ Len(results) = expectedCount
    /\ Completions(ActiveRun) = 1
    /\ dnsProbe # <<>> /\ probes = 0
    /\ ResultDelivered /\ lastOp.data.runId = runId

(***************************************************************************)
(* C2.  Once a new run has started, a result posted by a popup of an       *)
(* earlier, superseded run is ignored whenever it is delivered, and every  *)
(* accumulated measurement carries the id of the active run.               *)
(***************************************************************************)
C2_State == \A i \in DOMAIN results : results[i].runId = runId

C2_Step ==
    (ResultDeliveredNext /\ lastOp'.source # 0 /\ lastOp'.source < ActiveRun) =>
        UNCHANGED <<appVars, storage, probes, runLog, doneLog>>

C2_SupersededIgnored == [](C2_State) /\ [][C2_Step]_vars

\* What holds of the code: a result tagged with another id than the active
\* run's is ignored.
C2_OtherIdStep ==
    (ResultDeliveredNext /\ lastOp'.data.runId # runId) =>
        UNCHANGED <<appVars, storage, probes, runLog, doneLog>>

C2_OtherIdIgnored == [](C2_State) /\ [][C2_OtherIdStep]_vars

(***************************************************************************)
(* C3.  Every run started in the session has an id that no earlier run of  *)
(* the session has.                                                        *)
(***************************************************************************)
C3_UniqueRunIds ==
    \A i, j \in DOMAIN runLog : i # j => runLog[i].id # runLog[j].id

(***************************************************************************)
(* C4.  A record is appended only by the message that makes the number of  *)
(* accumulated distinct indices equal to expectedCount, and it holds those *)
(* measurements; a run with fewer has no record.                           *)
(***************************************************************************)
SameMembers(a, b) ==
    Len(a) = Len(b) /\ { a[i] : i \in DOMAIN a } = { b[i] : i \in DOMAIN b }

C4_State ==
    /\ \A i \in DOMAIN doneLog :
          /\ Len(doneLog[i].rec.results) = Len(runLog[doneLog[i].run].selected)
          /\ DistinctIndices(doneLog[i].rec.results)
    /\ \A k \in DOMAIN runLog : Completions(k) <= 1
    /\ (ActiveRun > 0 /\ Cardinality(Indices(results)) < expectedCount)
          => Completions(ActiveRun) = 0

C4_Step ==
    /\ Len(doneLog') <= Len(doneLog) + 1
    /\ (doneLog' # doneLog) =>
          /\ ResultDeliveredNext /\ lastOp'.data.runId = runId
          /\ Cardinality(Indices(results)) = expectedCount - 1
          /\ Cardinality(Indices(results')) = expectedCount
          /\ SameMembers(results', Append(results, lastOp'.data))
          /\ history'[1] = doneLog'[Len(doneLog')].rec
          /\ history'[1].results = results'
    /\ (history' # history /\ mounted) => doneLog' # doneLog

C4_RecordOnlyWhenComplete == [](C4_State) /\ [][C4_Step]_vars

\* A run of two sites is one result short, and then completes.
C4_Witness ==
    /\ ResultDelivered
    /\ expectedCount = 2
    /\ Completions(ActiveRun) = 1
    /\ history # <<>> /\ history[1].results = results

(***************************************************************************)
(* C5.  The accumulated measurements have pairwise distinct indices, each  *)
(* in 0..expectedCount-1.                                                  *)
(***************************************************************************)
C5_IndicesInRange ==
    /\ DistinctIndices(results)
    /\ \A i \in DOMAIN results :
          results[i].index >= 0 /\ results[i].index <= expectedCount - 1

\* What holds of the code: the same, while only the results of the run's own
\* popups carry its id.
C5_OwnResultsInRange ==
    (ActiveRun > 0 /\ OwnResults(ActiveRun)) => C5_IndicesInRange

(***************************************************************************)
(* C8.  The record of a completed run is a function of the result messages *)
(* of its popups alone: its measurements are those messages in index order *)
(* and its finalScore is their average score, in whatever order and        *)
(* however often they were delivered.                                      *)
(***************************************************************************)
C8_OrderIndependent ==
    \A i \in DOMAIN doneLog :
        LET k == doneLog[i].run
        IN OwnResults(k) =>
              /\ AllPosted(k)
              /\ doneLog[i].rec.results = OwnMessages(k)
              /\ doneLog[i].rec.finalScore = averageScore(OwnMessages(k))

\* The slow result of index 1 arrived before the fast result of index 0.
C8_Witness ==
    /\ ActiveRun > 0 /\ OwnResults(ActiveRun)
    /\ Completions(ActiveRun) = 1
    /\ expectedCount = 2
    /\ ResultDelivered /\ lastOp.data.runId = runId /\ lastOp.data.index = 0
    /\ results[1].loadTime = Fast.loadTime
    /\ results[2].loadTime = Slow.loadTime
    /\ history[1].results = results

(***************************************************************************)
(* C9.  runBenchmark with an empty or whitespace-only computer name        *)
(* changes nothing: no run is started, no popup is opened, and results,    *)
(* expectedCount, runId, history, probe result and storage are as before.  *)
(***************************************************************************)
WhitespaceOnly(text) == \A i \in DOMAIN text : text[i] = " "

C9_BlankNameRejected ==
    [][(lastOp'.op = "runBenchmark" /\ WhitespaceOnly(computerName)) =>
          /\ UNCHANGED <<appVars, storage, probes, runLog, doneLog>>
          /\ workers' \subseteq workers]_vars

\* Benchmark is pressed with the name " " while a run has one of its two
\* results.
C9_Witness ==
    /\ lastOp.op = "runBenchmark"
    /\ WhitespaceOnly(computerName) /\ computerName # <<>>
    /\ runId # NoRun
    /\ Len(results) = 1 /\ expectedCount = 2
    /\ workers # {}

(***************************************************************************)
(* C10.  runBenchmark with a valid computer name and no non-blank line in  *)
(* the site list changes nothing, in the same sense.                       *)
(***************************************************************************)
NoSiteLine(lines) == \A i \in DOMAIN lines : WhitespaceOnly(lines[i])

C10_EmptyPoolRejected ==
    [][(lastOp'.op = "runBenchmark" /\ ~WhitespaceOnly(computerName)
          /\ NoSiteLine(siteText)) =>
          /\ UNCHANGED <<appVars, storage, probes, runLog, doneLog>>
          /\ workers' \subseteq workers]_vars

\* Benchmark is pressed with the site list " \n" while a run has one of its
\* two results.
C10_Witness ==
    /\ lastOp.op = "runBenchmark"
    /\ ~WhitespaceOnly(computerName)
    /\ NoSiteLine(siteText) /\ Len(siteText) = 2
    /\ runId # NoRun
    /\ Len(results) = 1 /\ expectedCount = 2

(***************************************************************************)
(* C6.  The history log never holds more than 5 records: not after the     *)
(* log of an earlier session is restored, not after an append; and what    *)
(* is persisted under the history key never holds more either.             *)
(***************************************************************************)
C6_HistoryBounded ==
    /\ Len(history) <= HistoryCap
    /\ storage.hist.kind = "json" => Len(storage.hist.value) <= HistoryCap

\* A run completes after a full log was restored: its record is first and
\* the oldest restored record is gone.
C6_Witness ==
    /\ Len(doneLog) = 1
    /\ Len(history) = HistoryCap
    /\ history[1] = doneLog[1].rec
    /\ history[HistoryCap] = OldRecord(HistoryCap - 1)
    /\ storage.hist = Stringify(history)

(***************************************************************************)
(* C7.  From an empty history, after k completed runs the log is the       *)
(* records of the min(k, 5) runs completed last, newest first.             *)
(***************************************************************************)
C7_NewestFive ==
    LET k == Len(doneLog)
        m == Min(k, HistoryCap)
    IN history = [i \in 1..m |-> doneLog[k + 1 - i].rec]

\* Six runs have completed: five records, the sixth run's first, the first
\* run's gone.
C7_Witness ==
    /\ Len(doneLog) = 6
    /\ Len(history) = 5
    /\ history[1] = doneLog[6].rec
    /\ history[5] = doneLog[2].rec
    /\ \A i \in DOMAIN history : history[i].id # doneLog[1].rec.id

(***************************************************************************)
(* C11.  After the active run has completed, a probe result is on display  *)
(* only if a measurement of that run has loadTime > 1000, and it is on     *)
(* display once the probes have settled if one has; the completion starts  *)
(* a probe iff a measurement has loadTime > 1000 (1000 itself is not       *)
(* enough).  Stated for runs with ids of their own.                        *)
(***************************************************************************)
OverThreshold(items) == \E i \in DOMAIN items : items[i].loadTime >= 1001

LastRecord == doneLog[Len(doneLog)].rec

ActiveCompleted ==
    /\ ActiveRun > 0
    /\ \A k \in DOMAIN runLog : OwnId(k)
    /\ doneLog # <<>> /\ doneLog[Len(doneLog)].run = ActiveRun

C11_State ==
    ActiveCompleted =>
        /\ ~OverThreshold(LastRecord.results) => dnsProbe = <<>>
        /\ (OverThreshold(LastRecord.results) /\ probes = 0) => dnsProbe # <<>>

C11_Step ==
    (doneLog' # doneLog) =>
        IF OverThreshold(doneLog'[Len(doneLog')].rec.results)
        THEN probes' = probes + 1
        ELSE probes' = probes /\ dnsProbe' = <<>>

C11_ProbeIffSlow == [](C11_State) /\ [][C11_Step]_vars

\* What holds of the code: the same while no earlier run had a measurement
\* over the threshold (no probe of an earlier run can settle late).
NoEarlierProbe ==
    \A i \in DOMAIN doneLog :
        doneLog[i].run < ActiveRun => ~OverThreshold(doneLog[i].rec.results)

C11_NoEarlierState == NoEarlierProbe => C11_State

C11_NoEarlierProbeIffSlow == [](C11_NoEarlierState) /\ [][C11_Step]_vars

(***************************************************************************)
(* C12.  The score shown for every accumulated measurement is              *)
(* max(0, round(1000 - (0.4 loadTime + 0.3 cpuTime + 0.2 networkLatency    *)
(* + 0.1 memoryUsage))), round being to the nearest integer with halves    *)
(* up: 1000 for four zeros, 0 for loadTime = 100000, never negative.       *)
(***************************************************************************)
\* r is t / 10 rounded to the nearest integer, halves up
IsRoundOfTenths(r, t) == 10 * r - 5 <= t /\ t < 10 * r + 5

RawTenths(m) ==
    10000 - (4 * m.loadTime + 3 * m.cpuTime + 2 * m.networkLatency + m.memoryUsage)

IsScoreOf(sc, m) ==
    /\ sc >= 0
    /\ IF RawTenths(m) >= -5 THEN IsRoundOfTenths(sc, RawTenths(m)) ELSE sc = 0

AllZero(m) ==
    m.loadTime = 0 /\ m.cpuTime = 0 /\ m.networkLatency = 0 /\ m.memoryUsage = 0

C12_ScoreFormula ==
    \A i \in DOMAIN resultsWithScore :
        LET m == resultsWithScore[i].r
            sc == resultsWithScore[i].score
        IN /\ IsScoreOf(sc, m)
           /\ AllZero(m) => sc = 1000
           /\ m.loadTime = 100000 => sc = 0

\* A run shows the score 1000 of four zeros next to the score 0 of a load
\* time of 100000.
C12_Witness ==
    /\ Len(resultsWithScore) = 2
    /\ AllZero(resultsWithScore[1].r) /\ resultsWithScore[1].score = 1000
    /\ resultsWithScore[2].r.loadTime = 100000 /\ resultsWithScore[2].score = 0

(***************************************************************************)
(* C13.  averageScore of no items is 0; of n > 0 items it is the mean of   *)
(* their n scores rounded to the nearest integer, halves up.  The          *)
(* finalScore of every record is that value over the measurements of the   *)
(* record, which are the measurements accumulated by the run.              *)
(***************************************************************************)
RECURSIVE SumSeq(_)
SumSeq(ns) == IF ns = <<>> THEN 0 ELSE Head(ns) + SumSeq(Tail(ns))

ItemScores(items) == [i \in DOMAIN items |-> scoreOne(items[i])]

\* a is the mean of ns rounded to the nearest integer, halves up
IsRoundedMean(a, ns) ==
    IF ns = <<>> THEN a = 0
    ELSE LET n == Len(ns)
             total == SumSeq(ns)
         IN 2 * n * a - n <= 2 * total /\ 2 * total < 2 * n * a + n

C13_State ==
    /\ IsRoundedMean(averageScore(results), ItemScores(results))
    /\ \A i \in DOMAIN doneLog :
          IsRoundedMean(doneLog[i].rec.finalScore, ItemScores(doneLog[i].rec.results))

C13_Step ==
    (doneLog' # doneLog) =>
        /\ doneLog'[Len(doneLog')].rec.results = results'
        /\ IsRoundedMean(doneLog'[Len(doneLog')].rec.finalScore, ItemScores(results'))

C13_RoundedMeanOfScores == [](C13_State) /\ [][C13_Step]_vars

\* A run of two sites has the scores 999 and 1000: its finalScore is 1000,
\* the mean 999.5 rounded up, while the score of the mean metrics is 999.
C13_Witness ==
    /\ Len(doneLog) = 1
    /\ LET rec == doneLog[1].rec
       IN /\ Len(rec.results) = 2
          /\ ItemScores(rec.results) = <<999, 1000>>
          /\ rec.finalScore = 1000
          /\ history[1].finalScore = 1000
          /\ LET halfSum == (RawTenths(rec.results[1]) + RawTenths(rec.results[2])) \div 2
             IN /\ 2 * halfSum = RawTenths(rec.results[1]) + RawTenths(rec.results[2])
                /\ IsRoundOfTenths(999, halfSum)

(***************************************************************************)
(* C14.  When the content of the history key is absent or is not a         *)
(* serialized history log, startup leaves the history empty and the        *)
(* application running.                                                     *)
(***************************************************************************)
C14_LoadFailSoft ==
    [][(lastOp'.op = "mount" /\ storage.hist.kind # "json") =>
          (history' = <<>> /\ ~crashed')]_vars

\* What holds of the code: the same for an absent key and for text that
\* JSON.parse rejects.
C14_UnparsableFailSoft ==
    [][(lastOp'.op = "mount" /\ storage.hist.kind \in {"absent", "garbage"}) =>
          (history' = <<>> /\ ~crashed')]_vars

(***************************************************************************)
(* C15.  While the writes to localStorage succeed, after every append to   *)
(* the history (the persist effect of that render has run by the end of    *)
(* the handler) the history key holds the serialization of the whole       *)
(* in-memory log.                                                          *)
(***************************************************************************)
C15_State == (mounted /\ ~crashed) => storage.hist = Stringify(history)

C15_Step ==
    (doneLog' # doneLog) =>
        /\ storage'.hist.kind = "json"
        /\ storage'.hist.value = history'
        /\ storage'.hist.value[1] = doneLog'[Len(doneLog')].rec

C15_PersistedWhole == [](C15_State) /\ [][C15_Step]_vars

\* A run completes after a log of two records was restored: the key holds
\* the three records.
C15_Witness ==
    /\ Len(doneLog) = 1
    /\ Len(history) = 3
    /\ history[1] = doneLog[1].rec
    /\ history[3] = OldRecord(2)
    /\ storage.hist.kind = "json" /\ Len(storage.hist.value) = 3
    /\ lastOp.op = "onMessage"

(***************************************************************************)
(* C16.  A runBenchmark that starts a run sets expectedCount to            *)
(* min(5, number of sites), empties the results, and opens exactly         *)
(* expectedCount popups: for each i in 0..expectedCount-1 one popup with   *)
(* the new run id, the index i and the i-th selected site.                 *)
(***************************************************************************)
C16_Step ==
    (runLog' # runLog) =>
        LET new == runLog'[Len(runLog')]
            n == IF Len(sites) < 5 THEN Len(sites) ELSE 5
            opened == workers' \ workers
        IN /\ Len(runLog') = Len(runLog) + 1
           /\ expectedCount' = n
           /\ Len(new.selected) = n
           /\ results' = <<>>
           /\ runId' = new.id
           /\ workers \subseteq workers'
           /\ Cardinality(opened) = n
           /\ \A i \in 0..(n - 1) :
                 \E w \in opened :
                    w.index = i /\ w.runId = new.id /\ w.site = new.selected[i + 1]

C16_SpawnsExpectedCount == [][C16_Step]_vars

\* After a run of one site has its result, a run is started on a list of
\* six sites: five popups, no results.
C16_Witness ==
    /\ lastOp.op = "runBenchmark"
    /\ Len(runLog) = 2
    /\ Len(sites) = 6
    /\ Completions(1) = 1
    /\ expectedCount = 5 /\ results = <<>>
    /\ Cardinality({ w \in workers : w.run = 2 }) = 5
    /\ \E w \in workers : w.run = 2 /\ w.site = <<"y">>

(***************************************************************************)
(* C17.  The sites selected by a runBenchmark that starts a run are        *)
(* pairwise distinct, and each is a site of the list as it was entered.    *)
(***************************************************************************)
PairwiseDistinct(seq) ==
    \A i, j \in DOMAIN seq : i # j => seq[i] # seq[j]

Members(seq) == { seq[i] : i \in DOMAIN seq }

C17_State == \A k \in DOMAIN runLog : PairwiseDistinct(runLog[k].selected)

C17_Step ==
    (runLog' # runLog) =>
        Members(runLog'[Len(runLog')].selected) \subseteq Members(sites)

C17_SelectedDistinct == [](C17_State) /\ [][C17_Step]_vars

\* What holds of the code: the selected sites are sites of the list, and
\* they are pairwise distinct when the lines of the list are.
C17_DistinctPoolStep ==
    (runLog' # runLog) =>
        /\ Members(runLog'[Len(runLog')].selected) \subseteq Members(sites)
        /\ PairwiseDistinct(sites) => PairwiseDistinct(runLog'[Len(runLog')].selected)

C17_DistinctOfDistinctPool == [][C17_DistinctPoolStep]_vars

(***************************************************************************)
(* C18.  A message changes nothing of the state (results, expectedCount,   *)
(* run id, history, probe result, and what is stored and pending) when it  *)
(* has no data, when its type is not "benchmarkResult", or when a          *)
(* measurement of its index is already accumulated; the measurement        *)
(* accumulated first stays, whatever the metrics of the later message.     *)
(***************************************************************************)
IndexAccumulated(data) == \E i \in DOMAIN results : results[i].index = data.index

C18_Step ==
    (lastOp'.op = "onMessage"
       /\ \/ lastOp'.data.type = "null"
          \/ lastOp'.data.type # "benchmarkResult"
          \/ IndexAccumulated(lastOp'.data)) =>
        UNCHANGED <<appVars, storage, probes, runLog, doneLog>>

C18_DiscardedIsNoOp == [][C18_Step]_vars

\* A result of the active run's id arrives for an index that is accumulated
\* with another load time: the accumulated one is still there.
C18_Witness ==
    /\ ResultDelivered /\ lastOp.data.runId = runId
    /\ expectedCount = 2 /\ Len(results) = 1
    /\ results[1].index = lastOp.data.index
    /\ results[1].loadTime # lastOp.data.loadTime

\* A message of another type arrives while a run has one of its two results.
C18_OtherTypeArrived ==
    /\ lastOp.op = "onMessage" /\ lastOp.data.type = "other"
    /\ expectedCount = 2 /\ Len(results) = 1

(***************************************************************************)
(* C19.  A record of the history never changes while it is in the log:     *)
(* after startup every step leaves the log as it is, or puts one new       *)
(* record in front of the records it held, unchanged and in their order,   *)
(* the last of them possibly evicted.                                      *)
(***************************************************************************)
C19_Step ==
    mounted =>
        \/ history' = history
        \/ /\ Len(history') >= 1
           /\ Len(history') - 1 <= Len(history)
           /\ Len(history') - 1 >= Len(history) - 1
           /\ \A i \in 2..Len(history') : history'[i] = history[i - 1]

C19_RecordsImmutable == [][C19_Step]_vars

\* The record of the first run, made under the name a, is second in a full
\* log after the name was edited to b and a second run completed under it.
C19_Witness ==
    /\ Len(doneLog) = 2
    /\ Len(history) = HistoryCap
    /\ history[1] = doneLog[2].rec /\ history[1].computer = <<"b">>
    /\ history[2] = doneLog[1].rec /\ history[2].computer = <<"a">>
    /\ Len(history[2].results) = 2
    /\ history[3] = OldRecord(1)

(***************************************************************************)
(* C20.  The computer of a run's record is the computer name under which   *)
(* runBenchmark started that run.                                          *)
(***************************************************************************)
C20_ComputerAtStart ==
    \A i \in DOMAIN doneLog :
        doneLog[i].rec.computer = runLog[doneLog[i].run].computer

\* What holds of the code: the computer of the record is the computer name
\* at the time the last result of the run is accepted.
C20_ComputerAtCompletion ==
    [][(doneLog' # doneLog) =>
          doneLog'[Len(doneLog')].rec.computer = computerName]_vars

(***************************************************************************)
(* C21.  The measurements of every record appended to the history are in   *)
(* ascending order of index, in whatever order the results arrived.        *)
(***************************************************************************)
AscendingIndex(items) ==
    \A i, j \in DOMAIN items : i < j => items[i].index < items[j].index

C21_State ==
    /\ \A i \in DOMAIN doneLog : AscendingIndex(doneLog[i].rec.results)
    /\ \A i \in DOMAIN history : AscendingIndex(history[i].results)

C21_Step ==
    (doneLog' # doneLog) =>
        /\ AscendingIndex(history'[1].results)
        /\ Len(history'[1].results) = Len(results) + 1

C21_RecordSortedByIndex == [](C21_State) /\ [][C21_Step]_vars

\* The result of index 1 was accumulated first, then the result of index 0
\* completed the run: the record has index 0 first.
C21_Witness ==
    /\ lastOp.op = "onMessage" /\ lastOp.data.index = 0
    /\ Len(doneLog) = 1
    /\ Len(history) = 1 /\ Len(history[1].results) = 2
    /\ history[1].results[1].index = 0
    /\ history[1].results[1] = lastOp.data
    /\ history[1].results[2].index = 1

(***************************************************************************)
(* C22.  A run that is not superseded, all of whose popups post and all of *)
(* whose messages are delivered, eventually completes: one record of it is *)
(* in the history.  There is no timeout: the run state changes only by a   *)
(* message or by runBenchmark, and a run with fewer results than           *)
(* expectedCount has no record.                                            *)
(***************************************************************************)
RecordsOf(k) == { i \in DOMAIN history : history[i].id = runLog[k].id }

Completed(k) ==
    /\ Len(runLog) >= k
    /\ Completions(k) = 1
    /\ Cardinality(RecordsOf(k)) = 1

C22_Pending ==
    (ActiveRun > 0 /\ Len(results) < expectedCount) =>
        Completions(ActiveRun) = 0 /\ RecordsOf(ActiveRun) = {}

C22_NoTimeout ==
    (lastOp'.op \notin {"onMessage", "runBenchmark"}) =>
        UNCHANGED <<results, expectedCount, runId, history, doneLog, runLog>>

C22_EventuallyCompletes ==
    /\ [](C22_Pending)
    /\ [][C22_NoTimeout]_vars
    /\ \A k \in 1..MaxRuns :
          (<>[](Len(runLog) = k)) => <>(Completed(k))

\* The second run has completed with two results after the first was
\* superseded with one.
C22_Witness ==
    /\ Len(runLog) = 2
    /\ Completions(1) = 0 /\ Completed(2)
    /\ expectedCount = 2 /\ Len(results) = 2
    /\ \E ev \in channel : ev.source = 1

(***************************************************************************)
(* C23.  Whatever the outcome of the two round trips (each fetch resolves  *)
(* or fails), the probe yields two numeric latencies, the elapsed times    *)
(* rounded, and a recommendation, which is Cloudflare iff the elapsed time *)
(* of Cloudflare is smaller than that of Google; a failed fetch does not   *)
(* make the result null.                                                   *)
(***************************************************************************)
C23_ProbeResult ==
    probeLog # <<>> =>
        /\ dnsProbe # <<>>
        /\ LET t == probeLog[1]
               res == dnsProbe[1]
           IN /\ res.cloudflareMs \in Nat /\ res.googleMs \in Nat
              /\ IsRoundOfTenths(res.cloudflareMs, t.cloudflare.ms)
              /\ IsRoundOfTenths(res.googleMs, t.google.ms)
              /\ res.recommended \in {"Cloudflare (1.1.1.1)", "Google (8.8.8.8)"}
              /\ res.recommended = "Cloudflare (1.1.1.1)" <=> t.cloudflare.ms < t.google.ms

\* C23 as stated, read on the two latencies of the result: Cloudflare is
\* recommended iff the result's Cloudflare latency is the smaller one.
C23_RecommendedOfShown ==
    probeLog # <<>> =>
        /\ dnsProbe # <<>>
        /\ dnsProbe[1].recommended = "Cloudflare (1.1.1.1)"
               <=> dnsProbe[1].cloudflareMs < dnsProbe[1].googleMs

\* Both fetches failed, Cloudflare after 10.1 ms and Google after 10.4 ms:
\* the result shows 10 and 10 and recommends Cloudflare.
C23_Witness ==
    /\ probeLog # <<>> /\ dnsProbe # <<>>
    /\ probeLog[1].cloudflare.failed /\ probeLog[1].google.failed
    /\ probeLog[1].cloudflare.ms = 101 /\ probeLog[1].google.ms = 104
    /\ dnsProbe[1].cloudflareMs = 10 /\ dnsProbe[1].googleMs = 10
    /\ dnsProbe[1].recommended = "Cloudflare (1.1.1.1)"

(***************************************************************************)
(* C24.  The probe never blocks or fails the run.  The message that brings *)
(* the active run to its expected count appends the run's record in that   *)
(* step, whether a measurement is slow or not and whether a probe is       *)
(* pending or not.  A probe that settles, with any outcome, leaves the     *)
(* results, the history, the completions and the run state as they are;    *)
(* when the probe itself rejects, the probe result is null.                *)
(***************************************************************************)
C24_Completes ==
    (lastOp'.op = "onMessage"
       /\ lastOp'.data.type = "benchmarkResult"
       /\ lastOp'.data.runId = runId
       /\ ~IndexAccumulated(lastOp'.data)
       /\ Len(results) + 1 = expectedCount) =>
        /\ Len(doneLog') = Len(doneLog) + 1
        /\ doneLog'[Len(doneLog')].run = ActiveRun
        /\ history' # <<>>
        /\ history'[1] = doneLog'[Len(doneLog')].rec
        /\ history'[1].id = runId
        /\ Len(history'[1].results) = expectedCount
        /\ results' = history'[1].results
        /\ crashed' = crashed

C24_ProbeSettles ==
    (lastOp'.op = "setDnsProbe") =>
        /\ UNCHANGED <<results, history, doneLog, runLog, started, runId,
                       expectedCount, storage, crashed>>
        /\ (probeLog' = <<>>) => (dnsProbe' = <<>>)

C24_ProbeNeverFailsRun == [][C24_Completes /\ C24_ProbeSettles]_vars

\* The probe of a completed run with a slow measurement has rejected: the
\* record of the run is in the history, the results are shown, and the probe
\* result is null.
C24_Witness ==
    /\ lastOp.op = "setDnsProbe"
    /\ probeLog = <<>> /\ dnsProbe = <<>>
    /\ ~crashed
    /\ Len(doneLog) = 1 /\ Len(history) = 1
    /\ history[1] = doneLog[1].rec
    /\ AnySlow(history[1].results)
    /\ results = history[1].results

(***************************************************************************)
(* C25.  A read or a write of localStorage that throws is swallowed.  The  *)
(* application is never taken down by it.  A mount whose read of a key     *)
(* throws leaves the values in memory that were not yet loaded.  Whether   *)
(* or not the write of a step succeeds, an edit of the site text takes     *)
(* effect, and a completion puts its record first in the in-memory         *)
(* history, before the records that were there, cut to five.               *)
(***************************************************************************)
C25_State == mounted => ~crashed

C25_MountStep ==
    (lastOp'.op = "mount") =>
        /\ (storage.hist.kind = "garbage") =>
               (history' = history /\ siteText' = siteText)
        /\ (storage.hist.kind = "json") => (history' = storage.hist.value)
        /\ (storage.sites.kind = "garbage") => (siteText' = siteText)

\* (a step that leaves the clock and the channel is a step of the application)
C25_EditStep ==
    (lastOp'.op = "setSiteText" /\ UNCHANGED <<clock, channel>>) =>
        (siteText' # siteText /\ history' = history)

C25_AppendStep ==
    (doneLog' # doneLog) =>
        /\ Len(history') = Min(HistoryCap, Len(history) + 1)
        /\ history'[1] = doneLog'[Len(doneLog')].rec
        /\ \A i \in 2..Len(history') : history'[i] = history[i - 1]

C25_StorageFailSoft ==
    [](C25_State) /\ [][C25_MountStep /\ C25_EditStep /\ C25_AppendStep]_vars

\* The read of the history key threw and every write since has thrown (the
\* keys are as the earlier session left them); the site text was edited and
\* two runs of it were started and completed: both records are in memory.
C25_Witness ==
    /\ mounted
    /\ storage = [hist |-> Garbage, sites |-> Stringify(<< <<"x">> >>)]
    /\ siteText = << <<"x">>, <<>> >>
    /\ Len(doneLog) = 2
    /\ history = << doneLog[2].rec, doneLog[1].rec >>
    /\ history[1].id # history[2].id

(***************************************************************************)
(* C26.  Restart round trip.  When the history key holds a well-formed log *)
(* L of at most five records before the mount, then after the mount        *)
(* effects (the load, the persist of the first render and the persist of   *)
(* the render of the loaded log) the in-memory history is L and the key    *)
(* holds L again: a log with records is not left replaced by the empty     *)
(* log.  Stated while the writes succeed.                                  *)
(***************************************************************************)
WellFormedLog(item) ==
    /\ item.kind = "json"
    /\ Len(item.value) <= HistoryCap
    /\ \A i \in DOMAIN item.value : item.value[i] = OldRecord(i)

C26_Step ==
    (~mounted /\ mounted' /\ WellFormedLog(storage.hist)) =>
        /\ history' = storage.hist.value
        /\ storage'.hist = storage.hist
        /\ storage'.hist = Stringify(history')
        /\ (storage.hist.value # <<>>) => (storage'.hist # Stringify(<<>>))
        /\ ~crashed'

C26_RestartRoundTrip == [][C26_Step]_vars

\* The application has mounted over a log of five records: they are in
\* memory and under the key, and no run has been started.
C26_Witness ==
    /\ lastOp.op = "mount" /\ mounted /\ runLog = <<>>
    /\ Len(history) = HistoryCap
    /\ history = OldLog(HistoryCap)
    /\ storage.hist = Stringify(OldLog(HistoryCap))

(***************************************************************************)
(* C27.  From the runBenchmark that starts a run until the completion of   *)
(* that run the probe result is null: a probe of an earlier run that       *)
(* settles meanwhile is not shown.                                         *)
(***************************************************************************)
Pending == ActiveRun > 0 /\ Completions(ActiveRun) = 0

C27_NullWhilePending == Pending => dnsProbe = <<>>

\* What holds of the code: the same while no earlier run had a measurement
\* over the threshold.
C27_NoEarlierNullWhilePending == (Pending /\ NoEarlierProbe) => dnsProbe = <<>>

\* The probe of the first run has settled after the second run was started
\* and before it has any result.
C27_LateProbeShown ==
    /\ Len(runLog) = 2 /\ Len(doneLog) = 1 /\ results = <<>>
    /\ lastOp.op = "setDnsProbe"
    /\ dnsProbe # <<>>

(***************************************************************************)
(* C28.  No two records of the history have the same id.                   *)
(***************************************************************************)
C28_DistinctRecordIds ==
    \A i, j \in DOMAIN history : i # j => history[i].id # history[j].id

\* What holds of the code: the same while every run has an id of its own.
C28_OwnIdsDistinctRecordIds ==
    (\A k \in DOMAIN runLog : OwnId(k)) => C28_DistinctRecordIds

\* Two runs started in the same millisecond have both completed.
C28_TwoRecordsOneId ==
    /\ Len(runLog) = 2 /\ Len(doneLog) = 2
    /\ doneLog[1].run = 1 /\ doneLog[2].run = 2
    /\ Len(history) = 2
    /\ history[1].id = history[2].id

====
